---- MODULE Spec2Model ----
(***************************************************************************)
(* Model of helix-term/src/ui/text_decorations.rs: the Decoration trait    *)
(* with its default hooks, the DecorationManager that dispatches line,     *)
(* grapheme and virtual-line events to an ordered registry, and the two    *)
(* decorations of the file, Cursor and CopilotDecoration.                  *)
(*                                                                         *)
(* The renderer is observed at its interface: every call of               *)
(* TextRenderer::draw_decoration_grapheme is recorded with the row and     *)
(* column it was given, and the CursorCache cell is a variable.            *)
(***************************************************************************)
EXTENDS Integers, Sequences, FiniteSets

VARIABLES
    decorations,  \* DecorationManager.decorations: Seq of [dec, pos] (the Vec of pairs)
    cache,        \* the CursorCache cell the Cursor decorations write
    renderer,     \* the TextRenderer handed to the hooks: viewport and scroll offset
    soft_wrap,    \* whether the format of TextFormat::default() wraps lines
    pc,           \* "idle", "grapheme" while decorate_grapheme is running, or
                  \* "panicked" once an operation has panicked
    grapheme,     \* the FormattedGrapheme argument of the running decorate_grapheme
    cur,          \* index of the decoration the outer loop of decorate_grapheme is at
    trace,        \* the match arms taken so far by the running / last decorate_grapheme
    fires,        \* per decoration: decorate_grapheme hook calls since the last reset
    writes,       \* per decoration: cache writes since the last reset
    overflow_checks, \* the build panics on integer overflow (debug) or wraps (release)
    pass,         \* what the host has done since the last prepare_for_rendering
    lastop,       \* the manager operation performed last, with its arguments
    drawn,        \* draw_decoration_grapheme calls made by the last line operation
    hooks,        \* line / virtual-line hook calls made by the last line operation
    offs          \* the values virt_off took in the last render_virtual_lines

vars == <<decorations, cache, renderer, soft_wrap, overflow_checks, pc, grapheme, cur, trace,
          fires, writes, pass, lastop, drawn, hooks, offs>>

-----------------------------------------------------------------------------
(* Bounds of the model *)

\* largest registry
MaxDecorations == 2
\* document character indices are 0..MaxCharIdx
MaxCharIdx == 2
\* characters per visual line of the displayed document
DocCols == 2
\* viewport heights are 1..MaxHeight
MaxHeight == 3
\* suggestion texts of the stacking specification have 0..MaxNewlines newlines
MaxNewlines == 2
\* suggestion texts of the suggestion specification have at most MaxTextLen chars
MaxTextLen == 3
\* loop iterations of one decorate_grapheme call the model follows
MaxTrace == 8

(* Program constants *)

\* usize::MAX, the inactive anchor. Anchors are only compared, never added
\* to, so the largest integer TLC represents stands for it; every character
\* index of a document lies strictly below it.
UsizeMax == 2147483647
\* u16 arithmetic is modulo 2^16
U16Mod == 65536
\* TextFormat::default().viewport_width, overwritten by CopilotDecoration
DefaultViewportWidth == 17

None == [some |-> FALSE]
Some(v) == [some |-> TRUE, val |-> v]

\* `n as u16`
AsU16(n) == n % U16Mod
\* u16 + u16: a sum past u16::MAX panics in a build with overflow checks
\* ("attempt to add with overflow") and wraps in one without; val is the
\* result when the sum does not panic
AddU16(a, b) ==
    [panic |-> overflow_checks /\ a + b >= U16Mod, val |-> (a + b) % U16Mod]
\* s + b for a sum s already made
ThenAddU16(s, b) == IF s.panic THEN s ELSE AddU16(s.val, b)

\* the draws of a loop whose rows are the sums attempts[k].row: those before
\* the first sum that panics, and whether one did
UntilPanic(attempts) ==
    LET bad == {k \in DOMAIN attempts : attempts[k].row.panic}
        n == IF bad = {} THEN Len(attempts)
             ELSE (CHOOSE k \in bad : \A j \in bad : k <= j) - 1
    IN [draws |-> [k \in 1..n |-> [attempts[k] EXCEPT !.row = @.val]],
        panic |-> bad # {}]

-----------------------------------------------------------------------------
(* Suggestion text: a sequence of one-character strings *)

NL == "\n"

\* str::split('\n'): the lines between the newlines; one more line than
\* newlines, so the empty text yields one empty line
RECURSIVE SplitFrom(_, _, _)
SplitFrom(text, k, line) ==
    IF k > Len(text) THEN <<line>>
    ELSE IF text[k] = NL THEN <<line>> \o SplitFrom(text, k + 1, <<>>)
    ELSE SplitFrom(text, k + 1, Append(line, text[k]))

Split(text) == SplitFrom(text, 1, <<>>)

\* str::split_once('\n'): the text before the first newline, if there is one
RECURSIVE UntilNewline(_, _)
UntilNewline(text, k) ==
    IF k > Len(text) THEN None
    ELSE IF text[k] = NL THEN Some(SubSeq(text, 1, k - 1))
    ELSE UntilNewline(text, k + 1)

SplitOnce(text) == UntilNewline(text, 1)

-----------------------------------------------------------------------------
(* helix_core and the renderer, as the specification describes them *)

\* TextFormat::default()
TextFormat_default ==
    [soft_wrap |-> soft_wrap, viewport_width |-> DefaultViewportWidth]

\* DocumentFormatter::new_at_prev_checkpoint(line, text_fmt, no annotations, 0):
\* the positioned graphemes of one line, every grapheme one column wide,
\* wrapped at the viewport width when the format wraps
DocumentFormatter(line, text_fmt) ==
    [k \in 1..Len(line) |->
        [raw      |-> line[k],
         char_idx |-> k - 1,
         visual_pos |->
            IF text_fmt.soft_wrap
            THEN [row |-> (k - 1) \div text_fmt.viewport_width,
                  col |-> (k - 1) % text_fmt.viewport_width]
            ELSE [row |-> 0, col |-> k - 1]]]

\* TextRenderer::column_in_bounds
column_in_bounds(r, col) ==
    r.col_offset <= col /\ col < r.viewport.width + r.col_offset

-----------------------------------------------------------------------------
(* The decorations of the file *)

Closure == [kind |-> "Closure"]
CursorDec(t) == [kind |-> "Cursor", primary_cursor |-> t]
\* CopilotDecoration::new, with coords_at_pos already applied: row and col
CopilotDec(text, row, col, w) ==
    [kind |-> "Copilot", text |-> text, row |-> row, col |-> col, view_width |-> w]

\* a default that restarts at 0
Default_reset_pos_zero(pos) == 0

\* Decoration::reset_pos, the default
Default_reset_pos(pos) == UsizeMax

\* Decoration::decorate_grapheme, the default: nothing is drawn or written
Default_decorate_grapheme(g) == [write |-> None, ret |-> UsizeMax]

\* Decoration::render_virt_lines, the default
Default_render_virt_lines(pos, virt_off) ==
    [draws |-> <<>>, ret |-> 0, panic |-> FALSE]

\* the comparison with < for <=
Cursor_reset_pos_strict(self, pos) ==
    IF pos < self.primary_cursor THEN self.primary_cursor ELSE UsizeMax

\* a reset that restarts at 0 once the position is past the cursor
Cursor_reset_pos_back(self, pos) ==
    IF pos <= self.primary_cursor THEN self.primary_cursor ELSE 0

\* Cursor::reset_pos
Cursor_reset_pos(self, pos) ==
    IF pos <= self.primary_cursor THEN self.primary_cursor ELSE UsizeMax

\* a hook that returns the cursor position again
Cursor_decorate_grapheme_again(self, r, g) ==
    [write |-> IF column_in_bounds(r, g.visual_pos.col)
               THEN Some([row |-> g.visual_pos.row,
                          col |-> g.visual_pos.col - r.col_offset])
               ELSE None,
     ret |-> self.primary_cursor]

\* Cursor::decorate_grapheme: the position written to the cache, if any, and
\* the anchor returned
Cursor_decorate_grapheme(self, r, g) ==
    [write |-> IF column_in_bounds(r, g.visual_pos.col)
               THEN Some([row |-> g.visual_pos.row,
                          col |-> g.visual_pos.col - r.col_offset])
               ELSE None,
     ret |-> UsizeMax]

\* the while loop of CopilotDecoration::render_virt_lines over the
\* enumerated lines after the first; line idx is drawn at
\* pos.visual_line + grapheme.visual_pos.row + idx
RECURSIVE Copilot_lines(_, _, _, _)
Copilot_lines(self, pos, lines, idx) ==
    IF idx >= Len(lines) THEN [draws |-> <<>>, panic |-> FALSE]
    ELSE LET text_fmt == [TextFormat_default EXCEPT !.viewport_width = self.view_width]
             fmt == DocumentFormatter(lines[idx + 1], text_fmt)
             here == UntilPanic(
                       [k \in 1..Len(fmt) |->
                          [line |-> idx,
                           raw  |-> fmt[k].raw,
                           char_idx |-> fmt[k].char_idx,
                           row  |-> ThenAddU16(AddU16(pos.visual_line,
                                                      AsU16(fmt[k].visual_pos.row)),
                                               AsU16(idx)),
                           col  |-> AsU16(fmt[k].visual_pos.col)]])
             rest == Copilot_lines(self, pos, lines, idx + 1)
         IN IF here.panic THEN here
            ELSE [draws |-> here.draws \o rest.draws, panic |-> rest.panic]

\* a count that includes the first line
Copilot_render_virt_lines_all(self, pos, virt_off) ==
    IF pos.doc_line # self.row
    THEN [draws |-> <<>>, ret |-> 0, panic |-> FALSE]
    ELSE LET lines == Split(self.text)
             run == Copilot_lines(self, pos, lines, 1)
         IN [draws |-> run.draws, ret |-> AsU16(Len(lines)), panic |-> run.panic]

\* CopilotDecoration::render_virt_lines: the draws made, the row count
\* returned and whether a row sum panicked, in which case nothing is
\* returned; the offset argument is not read
Copilot_render_virt_lines(self, pos, virt_off) ==
    IF pos.doc_line # self.row
    THEN [draws |-> <<>>, ret |-> 0, panic |-> FALSE]
    ELSE LET lines == Split(self.text)
             n_lines == Len(lines) - 1
             run == Copilot_lines(self, pos, lines, 1)
         IN [draws |-> run.draws, ret |-> AsU16(n_lines), panic |-> run.panic]

\* the target column itself skipped, and every line of the text drawn
Copilot_decorate_line_after(self, pos) ==
    IF self.row # pos.doc_line
    THEN [draws |-> <<>>, panic |-> FALSE]
    ELSE LET first_line == self.text
             text_fmt == [TextFormat_default EXCEPT !.viewport_width = self.view_width]
             fmt == DocumentFormatter(first_line, text_fmt)
             kept == SelectSeq(fmt, LAMBDA g : ~(g.char_idx <= self.col))
         IN UntilPanic(
              [k \in 1..Len(kept) |->
                 [line |-> 0,
                  raw  |-> kept[k].raw,
                  char_idx |-> kept[k].char_idx,
                  row  |-> AddU16(pos.visual_line, AsU16(kept[k].visual_pos.row)),
                  col  |-> AsU16(kept[k].visual_pos.col)]])

\* CopilotDecoration::decorate_line: the draws made on the text line and
\* whether a row sum panicked
Copilot_decorate_line(self, pos) ==
    IF self.row # pos.doc_line
    THEN [draws |-> <<>>, panic |-> FALSE]
    ELSE LET split == SplitOnce(self.text)
             first_line == IF split.some THEN split.val ELSE self.text
             text_fmt == [TextFormat_default EXCEPT !.viewport_width = self.view_width]
             fmt == DocumentFormatter(first_line, text_fmt)
             kept == SelectSeq(fmt, LAMBDA g : ~(g.char_idx < self.col))
         IN UntilPanic(
              [k \in 1..Len(kept) |->
                 [line |-> 0,
                  raw  |-> kept[k].raw,
                  char_idx |-> kept[k].char_idx,
                  row  |-> AddU16(pos.visual_line, AsU16(kept[k].visual_pos.row)),
                  col  |-> AsU16(kept[k].visual_pos.col)]])

-----------------------------------------------------------------------------
(* Dynamic dispatch on Box<dyn Decoration> *)

reset_pos(d, pos) ==
    IF d.kind = "Cursor" THEN Cursor_reset_pos(d, pos) ELSE Default_reset_pos(pos)

\* Decoration::skip_concealed_anchor: the default, which no decoration of
\* the file overrides
skip_concealed_anchor(d, conceal_end_char_idx) ==
    reset_pos(d, conceal_end_char_idx)

decorate_grapheme(d, r, g) ==
    IF d.kind = "Cursor" THEN Cursor_decorate_grapheme(d, r, g)
    ELSE Default_decorate_grapheme(g)

\* the line hook: the default and a closure draw nothing through the
\* renderer of the model, CopilotDecoration draws its first line
decorate_line(d, pos) ==
    IF d.kind = "Copilot" THEN Copilot_decorate_line(d, pos)
    ELSE [draws |-> <<>>, panic |-> FALSE]

render_virt_lines(d, pos, virt_off) ==
    IF d.kind = "Copilot" THEN Copilot_render_virt_lines(d, pos, virt_off)
    ELSE Default_render_virt_lines(pos, virt_off)

\* impl Decoration for F: the closure is the body of decorate_line, the one
\* method the impl overrides; every other hook of a closure is the default
ClosureRuns(d, hook) == d.kind = "Closure" /\ hook = "decorate_line"

-----------------------------------------------------------------------------
(* DecorationManager *)

\* the comparison with <= taken for equality
cmp_le(a, b) == IF a <= b THEN "Equal" ELSE "Greater"

\* the comparison with equality taken for greater
cmp_ge(a, b) == IF a < b THEN "Less" ELSE "Greater"

\* (*hook_char_idx).cmp(&grapheme.char_idx)
cmp(a, b) == IF a < b THEN "Less" ELSE IF a = b THEN "Equal" ELSE "Greater"

\* the guard with > for >=
ViewportFull_gt(pos, virt_off) ==
    AddU16(pos.visual_line, virt_off).val > renderer.viewport.height

\* the guard left out
ViewportFull_never(pos, virt_off) == FALSE

\* the guard of the loop of render_virtual_lines
ViewportFull(pos, virt_off) ==
    AddU16(pos.visual_line, virt_off).val >= renderer.viewport.height

\* the loop of render_virtual_lines from decoration i on, with the running
\* offset virt_off: the hooks called, the draws they made, the values
\* virt_off took, and whether a sum panicked, which ends the operation
RECURSIVE VirtLoop(_, _, _, _)
VirtLoop(decs, i, pos, virt_off) ==
    IF i > Len(decs)
    THEN [hooks |-> <<>>, drawn |-> <<>>, offs |-> <<>>, panic |-> FALSE]
    ELSE IF AddU16(pos.visual_line, virt_off).panic
    THEN [hooks |-> <<>>, drawn |-> <<>>, offs |-> <<>>, panic |-> TRUE]
    ELSE IF ViewportFull(pos, virt_off)
    THEN [hooks |-> <<>>, drawn |-> <<>>, offs |-> <<>>, panic |-> FALSE]
    ELSE LET r == render_virt_lines(decs[i].dec, pos, virt_off)
             next_off == AddU16(virt_off, r.ret)
             called == <<[dec |-> i, hook |-> "render_virt_lines",
                          closure |-> ClosureRuns(decs[i].dec, "render_virt_lines"),
                          virt_off |-> virt_off, ret |-> r.ret, panic |-> r.panic]>>
             draws == [k \in 1..Len(r.draws) |->
                         [dec |-> i, virt_off |-> virt_off, g |-> r.draws[k]]]
         IN IF r.panic \/ next_off.panic
            THEN [hooks |-> called, drawn |-> draws, offs |-> <<>>, panic |-> TRUE]
            ELSE LET rest == VirtLoop(decs, i + 1, pos, next_off.val)
                 IN [hooks |-> called \o rest.hooks,
                     drawn |-> draws \o rest.drawn,
                     offs  |-> <<next_off.val>> \o rest.offs,
                     panic |-> rest.panic]

\* a loop that passes over the decorations whose anchor is inactive
RECURSIVE LineLoop_active(_, _, _)
LineLoop_active(decs, i, pos) ==
    IF i > Len(decs)
    THEN [hooks |-> <<>>, drawn |-> <<>>, panic |-> FALSE]
    ELSE IF decs[i].pos = UsizeMax
    THEN LineLoop_active(decs, i + 1, pos)
    ELSE LET d == decorate_line(decs[i].dec, pos)
             called == <<[dec |-> i, hook |-> "decorate_line",
                          closure |-> ClosureRuns(decs[i].dec, "decorate_line"),
                          panic |-> d.panic]>>
             draws == [k \in 1..Len(d.draws) |->
                         [dec |-> i, virt_off |-> 0, g |-> d.draws[k]]]
         IN IF d.panic
            THEN [hooks |-> called, drawn |-> draws, panic |-> TRUE]
            ELSE LET rest == LineLoop_active(decs, i + 1, pos)
                 IN [hooks |-> called \o rest.hooks,
                     drawn |-> draws \o rest.drawn,
                     panic |-> rest.panic]

\* the loop of decorate_line from decoration i on: the hooks called, the
\* draws they made, and whether one panicked, which ends the operation
RECURSIVE LineLoop(_, _, _)
LineLoop(decs, i, pos) ==
    IF i > Len(decs)
    THEN [hooks |-> <<>>, drawn |-> <<>>, panic |-> FALSE]
    ELSE LET d == decorate_line(decs[i].dec, pos)
             called == <<[dec |-> i, hook |-> "decorate_line",
                          closure |-> ClosureRuns(decs[i].dec, "decorate_line"),
                          panic |-> d.panic]>>
             draws == [k \in 1..Len(d.draws) |->
                         [dec |-> i, virt_off |-> 0, g |-> d.draws[k]]]
         IN IF d.panic
            THEN [hooks |-> called, drawn |-> draws, panic |-> TRUE]
            ELSE LET rest == LineLoop(decs, i + 1, pos)
                 IN [hooks |-> called \o rest.hooks,
                     drawn |-> draws \o rest.drawn,
                     panic |-> rest.panic]

-----------------------------------------------------------------------------
(* The host: what it feeds the manager *)

NoGrapheme == [char_idx |-> 0, visual_pos |-> [row |-> 0, col |-> 0]]

\* the formatter's grapheme for document character ci: the document is laid
\* out DocCols characters to the visual line
DocGrapheme(ci) ==
    [char_idx |-> ci,
     visual_pos |-> [row |-> ci \div DocCols, col |-> ci % DocCols]]

\* the character indices of the displayed document; a rope's length is far
\* below usize::MAX, so no grapheme of it carries the inactive anchor
CharIdxs == 0..MaxCharIdx
DocLines == {0, 1}

LinePoss ==
    [doc_line : DocLines, visual_line : 0..(renderer.viewport.height - 1)]

Renderers(heights, widths, offsets) ==
    { [viewport |-> [width |-> w, height |-> h], col_offset |-> o] :
        h \in heights, w \in widths, o \in offsets }

\* a suggestion of n + 1 one-character lines
RECURSIVE Suggestion(_)
Suggestion(n) == IF n = 0 THEN <<"a">> ELSE Suggestion(n - 1) \o <<NL, "b">>

\* pass: whether the host has, since the last prepare_for_rendering(first),
\* only dispatched graphemes, in strictly increasing order from first on
\* (clean); the character indices dispatched (seen); the cache at the reset
NoPass == [clean |-> FALSE, first |-> 0, seen |-> {}, cache0 |-> None]

-----------------------------------------------------------------------------
(* Operations *)

NoDispatch ==
    /\ pc' = "idle"
    /\ grapheme' = NoGrapheme
    /\ cur' = 0
    /\ trace' = <<>>

NoLineOp ==
    /\ drawn' = <<>>
    /\ hooks' = <<>>
    /\ offs' = <<>>

\* a registration that puts the new decoration first
AddDecoration_front(d) ==
    /\ pc = "idle"
    /\ Len(decorations) < MaxDecorations
    /\ decorations' = <<[dec |-> d, pos |-> 0]>> \o decorations
    /\ fires' = <<0>> \o fires
    /\ writes' = <<0>> \o writes
    /\ pass' = NoPass
    /\ lastop' = [op |-> "add_decoration"]
    /\ NoDispatch /\ NoLineOp
    /\ UNCHANGED <<cache, renderer, soft_wrap, overflow_checks>>

\* DecorationManager::add_decoration
AddDecoration(d) ==
    /\ pc = "idle"
    /\ Len(decorations) < MaxDecorations
    /\ decorations' = Append(decorations, [dec |-> d, pos |-> 0])
    /\ fires' = Append(fires, 0)
    /\ writes' = Append(writes, 0)
    /\ pass' = NoPass
    /\ lastop' = [op |-> "add_decoration"]
    /\ NoDispatch /\ NoLineOp
    /\ UNCHANGED <<cache, renderer, soft_wrap, overflow_checks>>

\* DecorationManager::prepare_for_rendering
PrepareForRendering(first_visible_char) ==
    /\ pc = "idle"
    /\ decorations' =
         [i \in 1..Len(decorations) |->
            [dec |-> decorations[i].dec,
             pos |-> reset_pos(decorations[i].dec, first_visible_char)]]
    /\ fires' = [i \in 1..Len(decorations) |-> 0]
    /\ writes' = [i \in 1..Len(decorations) |-> 0]
    /\ pass' = [clean |-> TRUE, first |-> first_visible_char, seen |-> {},
                 cache0 |-> cache]
    /\ lastop' = [op |-> "prepare_for_rendering", first_visible_char |-> first_visible_char]
    /\ NoDispatch /\ NoLineOp
    /\ UNCHANGED <<cache, renderer, soft_wrap, overflow_checks>>

\* DecorationManager::decorate_grapheme is entered with grapheme g
DecorateGraphemeCall(g) ==
    /\ pc = "idle"
    /\ pc' = "grapheme"
    /\ grapheme' = g
    /\ cur' = 1
    /\ trace' = <<>>
    /\ LET clean == /\ pass.clean
                    /\ g.char_idx >= pass.first
                    /\ \A c \in pass.seen : c < g.char_idx
       IN pass' = IF clean
                  THEN [pass EXCEPT !.seen = @ \cup {g.char_idx}]
                  ELSE NoPass
    /\ lastop' = [op |-> "decorate_grapheme", char_idx |-> g.char_idx,
                   repeat |-> /\ lastop.op = "decorate_grapheme"
                              /\ lastop.char_idx = g.char_idx]
    /\ NoLineOp
    /\ UNCHANGED <<decorations, cache, renderer, soft_wrap, overflow_checks, fires, writes>>

InLoop ==
    /\ pc = "grapheme"
    /\ cur <= Len(decorations)
    /\ Len(trace) < MaxTrace

\* the skip made for the character after the anchor, not for the grapheme's
StepLess_next ==
    /\ InLoop
    /\ cmp(decorations[cur].pos, grapheme.char_idx) = "Less"
    /\ LET ret == skip_concealed_anchor(decorations[cur].dec, decorations[cur].pos + 1)
       IN /\ decorations' = [decorations EXCEPT ![cur].pos = ret]
          /\ trace' = Append(trace, [dec |-> cur, call |-> "skip_concealed_anchor",
                                     closure |-> ClosureRuns(decorations[cur].dec,
                                                             "skip_concealed_anchor"),
                                     write |-> None,
                                     anchor |-> decorations[cur].pos,
                                     arg |-> decorations[cur].pos + 1, ret |-> ret])
    /\ UNCHANGED <<cache, renderer, soft_wrap, overflow_checks, pc, grapheme, cur, fires, writes,
                   pass, lastop, drawn, hooks, offs>>

\* Ordering::Less: the anchor was concealed, or this is the first grapheme
StepLess ==
    /\ InLoop
    /\ cmp(decorations[cur].pos, grapheme.char_idx) = "Less"
    /\ LET ret == skip_concealed_anchor(decorations[cur].dec, grapheme.char_idx)
       IN /\ decorations' = [decorations EXCEPT ![cur].pos = ret]
          /\ trace' = Append(trace, [dec |-> cur, call |-> "skip_concealed_anchor",
                                     closure |-> ClosureRuns(decorations[cur].dec,
                                                             "skip_concealed_anchor"),
                                     write |-> None,
                                     anchor |-> decorations[cur].pos,
                                     arg |-> grapheme.char_idx, ret |-> ret])
    /\ UNCHANGED <<cache, renderer, soft_wrap, overflow_checks, pc, grapheme, cur, fires, writes,
                   pass, lastop, drawn, hooks, offs>>

\* the hook's return value dropped
StepEqual_keep ==
    /\ InLoop
    /\ cmp(decorations[cur].pos, grapheme.char_idx) = "Equal"
    /\ LET r == decorate_grapheme(decorations[cur].dec, renderer, grapheme)
       IN /\ cache' = IF r.write.some THEN r.write ELSE cache
          /\ fires' = [fires EXCEPT ![cur] = @ + 1]
          /\ writes' = [writes EXCEPT ![cur] = IF r.write.some THEN @ + 1 ELSE @]
          /\ trace' = Append(trace, [dec |-> cur, call |-> "decorate_grapheme",
                                     closure |-> ClosureRuns(decorations[cur].dec,
                                                             "decorate_grapheme"),
                                     write |-> r.write,
                                     anchor |-> decorations[cur].pos,
                                     arg |-> grapheme.char_idx,
                                     ret |-> decorations[cur].pos])
    /\ UNCHANGED <<decorations, renderer, soft_wrap, overflow_checks, pc, grapheme, cur, pass,
                   lastop, drawn, hooks, offs>>

\* Ordering::Equal: the grapheme hook is called
StepEqual ==
    /\ InLoop
    /\ cmp(decorations[cur].pos, grapheme.char_idx) = "Equal"
    /\ LET r == decorate_grapheme(decorations[cur].dec, renderer, grapheme)
       IN /\ decorations' = [decorations EXCEPT ![cur].pos = r.ret]
          /\ cache' = IF r.write.some THEN r.write ELSE cache
          /\ fires' = [fires EXCEPT ![cur] = @ + 1]
          /\ writes' = [writes EXCEPT ![cur] = IF r.write.some THEN @ + 1 ELSE @]
          /\ trace' = Append(trace, [dec |-> cur, call |-> "decorate_grapheme",
                                     closure |-> ClosureRuns(decorations[cur].dec,
                                                             "decorate_grapheme"),
                                     write |-> r.write,
                                     anchor |-> decorations[cur].pos,
                                     arg |-> grapheme.char_idx, ret |-> r.ret])
    /\ UNCHANGED <<renderer, soft_wrap, overflow_checks, pc, grapheme, cur, pass, lastop,
                   drawn, hooks, offs>>

\* Ordering::Greater: break, on to the next decoration
StepGreater ==
    /\ InLoop
    /\ cmp(decorations[cur].pos, grapheme.char_idx) = "Greater"
    /\ cur' = cur + 1
    /\ trace' = Append(trace, [dec |-> cur, call |-> "break", closure |-> FALSE,
                               write |-> None,
                               anchor |-> decorations[cur].pos,
                               arg |-> grapheme.char_idx, ret |-> decorations[cur].pos])
    /\ UNCHANGED <<decorations, cache, renderer, soft_wrap, overflow_checks, pc, grapheme, fires,
                   writes, pass, lastop, drawn, hooks, offs>>

\* DecorationManager::decorate_grapheme returns
DecorateGraphemeReturn ==
    /\ pc = "grapheme"
    /\ cur > Len(decorations)
    /\ pc' = "idle"
    /\ cur' = 0
    /\ UNCHANGED <<decorations, cache, renderer, soft_wrap, overflow_checks, grapheme, trace, fires,
                   writes, pass, lastop, drawn, hooks, offs>>

\* DecorationManager::decorate_line; a panic ends the program
DecorateLine(pos) ==
    /\ pc = "idle"
    /\ LET run == LineLoop(decorations, 1, pos)
       IN /\ drawn' = run.drawn
          /\ hooks' = run.hooks
          /\ offs' = <<>>
          /\ pc' = IF run.panic THEN "panicked" ELSE "idle"
    /\ lastop' = [op |-> "decorate_line", pos |-> pos]
    /\ grapheme' = NoGrapheme
    /\ cur' = 0
    /\ trace' = <<>>
    /\ UNCHANGED <<decorations, cache, renderer, soft_wrap, overflow_checks, fires, writes, pass>>

\* DecorationManager::render_virtual_lines; virt_off starts at 1; a panic
\* ends the program
RenderVirtualLines(pos) ==
    /\ pc = "idle"
    /\ LET run == VirtLoop(decorations, 1, pos, 1)
       IN /\ drawn' = run.drawn
          /\ hooks' = run.hooks
          /\ offs' = <<1>> \o run.offs
          /\ pc' = IF run.panic THEN "panicked" ELSE "idle"
    /\ lastop' = [op |-> "render_virtual_lines", pos |-> pos]
    /\ grapheme' = NoGrapheme
    /\ cur' = 0
    /\ trace' = <<>>
    /\ UNCHANGED <<decorations, cache, renderer, soft_wrap, overflow_checks, fires, writes, pass>>

-----------------------------------------------------------------------------
(* Specifications *)

InitWith(rs, wraps, registries) ==
    /\ decorations \in registries
    /\ cache = None
    /\ renderer \in rs
    /\ soft_wrap \in wraps
    /\ overflow_checks \in BOOLEAN
    /\ pc = "idle"
    /\ grapheme = NoGrapheme
    /\ cur = 0
    /\ trace = <<>>
    /\ fires = [i \in 1..Len(decorations) |-> 0]
    /\ writes = [i \in 1..Len(decorations) |-> 0]
    /\ pass = NoPass
    /\ lastop = [op |-> "new"]
    /\ drawn = <<>>
    /\ hooks = <<>>
    /\ offs = <<>>

\* The manager's protocol: every operation, over a registry of closures,
\* cursors and a suggestion, in a viewport one column wide scrolled by 0 or 1
CursorTargets == {0, 1}

Pool ==
    {Closure} \cup {CursorDec(t) : t \in CursorTargets}
              \cup {CopilotDec(Suggestion(1), 0, 0, DocCols)}

Init == InitWith(Renderers({1}, {1}, {0, 1}), {FALSE}, {<<>>})

Next ==
    \/ \E d \in Pool : AddDecoration(d)
    \/ \E c \in CharIdxs : PrepareForRendering(c)
    \/ \E c \in CharIdxs : DecorateGraphemeCall(DocGrapheme(c))
    \/ StepLess
    \/ StepEqual
    \/ StepGreater
    \/ DecorateGraphemeReturn
    \/ \E pos \in LinePoss : DecorateLine(pos)
    \/ \E pos \in LinePoss : RenderVirtualLines(pos)

Spec == Init /\ [][Next]_vars

\* The grapheme dispatch fed any usize: the document's indices and the
\* sentinel usize::MAX itself
AnyCharIdxs == CharIdxs \cup {UsizeMax}

NextSentinel ==
    \/ \E d \in Pool : AddDecoration(d)
    \/ \E c \in CharIdxs : PrepareForRendering(c)
    \/ \E c \in AnyCharIdxs : DecorateGraphemeCall(DocGrapheme(c))
    \/ StepLess
    \/ StepEqual
    \/ StepGreater
    \/ DecorateGraphemeReturn

SpecSentinel == Init /\ [][NextSentinel]_vars

\* Virtual-line stacking: registries of suggestions of 1..MaxNewlines+1
\* lines, closures and a cursor, in viewports of every height
VirtPool ==
    {Closure, CursorDec(0)}
    \cup {CopilotDec(Suggestion(n), row, 0, DocCols) :
            n \in 0..MaxNewlines, row \in DocLines}

InitVirt == InitWith(Renderers(1..MaxHeight, {1}, {0}), {FALSE}, {<<>>})

NextVirt ==
    \/ \E d \in VirtPool : AddDecoration(d)
    \/ \E pos \in LinePoss : DecorateLine(pos)
    \/ \E pos \in LinePoss : RenderVirtualLines(pos)

SpecVirt == InitVirt /\ [][NextVirt]_vars

\* One suggestion on its own: every text of at most MaxTextLen characters
\* over a letter and the newline, and the text "foo(\n  bar,\n)", at every
\* target, re-flowed at widths 1, 2 and 80 with and without wrapping
RECURSIVE SeqsUpTo(_, _)
SeqsUpTo(S, n) ==
    IF n = 0 THEN {<<>>}
    ELSE LET shorter == SeqsUpTo(S, n - 1)
         IN shorter \cup {Append(t, c) : t \in shorter, c \in S}

ExampleText == <<"f", "o", "o", "(", NL, " ", " ", "b", "a", "r", ",", NL, ")">>

Texts == SeqsUpTo({"a", NL}, MaxTextLen) \cup {ExampleText}

ViewWidths == {1, 2, 80}

CopilotRegistries ==
    { <<[dec |-> CopilotDec(t, row, col, w), pos |-> 0]>> :
        t \in Texts, row \in DocLines, col \in {0, 1}, w \in ViewWidths }

InitCopilot ==
    InitWith(Renderers({MaxHeight}, {1}, {0}), BOOLEAN, CopilotRegistries)

NextCopilot ==
    \/ \E pos \in LinePoss : DecorateLine(pos)
    \/ \E pos \in LinePoss : RenderVirtualLines(pos)

SpecCopilot == InitCopilot /\ [][NextCopilot]_vars

-----------------------------------------------------------------------------
(* Virtual-line stacking: C1, C2, C8, C10 under SpecVirt *)

Rendered == lastop.op = "render_virtual_lines" /\ pc = "idle"

\* the row after the last virtual row decoration k of the last
\* render_virtual_lines call was entitled to
RowLimit(k) ==
    lastop.pos.visual_line + hooks[k].virt_off + hooks[k].ret

\* C1: in one render_virtual_lines call, every row a later decoration draws
\* into is strictly greater than every row an earlier decoration draws into.
C1_LaterRowsBelowEarlier ==
    Rendered =>
        \A j, k \in DOMAIN drawn :
            drawn[j].dec < drawn[k].dec => drawn[j].g.row < drawn[k].g.row

\* C2 as claimed: the running offset never reaches a value with
\* pos.visual_line + virt_off >= viewport.height. Stated of the values
\* virt_off takes by adding a hook's row count (offs[1] is the initial 1).
C2_RunningOffsetInViewport ==
    Rendered =>
        \A k \in DOMAIN offs :
            k > 1 => lastop.pos.visual_line + offs[k] < renderer.viewport.height

\* C2 as amended: every offset passed to a render_virt_lines hook satisfies
\* pos.visual_line + virt_off < viewport.height; the offsets passed are the
\* cumulative sums, starting at 1, of the row counts returned so far.
C2_PassedOffsetInViewport ==
    Rendered =>
        \A k \in DOMAIN hooks :
            /\ lastop.pos.visual_line + hooks[k].virt_off < renderer.viewport.height
            /\ hooks[k].virt_off =
                 IF k = 1 THEN 1 ELSE hooks[k - 1].virt_off + hooks[k - 1].ret

\* C2 witness: a hook was called inside the viewport and the rows it
\* returned took the running offset to the viewport's end or past it
C2_Witness ==
    /\ Rendered
    /\ Len(hooks) >= 1
    /\ hooks[Len(hooks)].ret > 0
    /\ lastop.pos.visual_line + offs[Len(offs)] >= renderer.viewport.height

\* C8: CopilotDecoration::render_virt_lines, called on its target row with
\* offset virt_offset, draws suggestion line line_index into row
\* pos.visual_line + virt_offset + (line_index - 1).
C8_LineRowFollowsOffset ==
    Rendered =>
        \A k \in DOMAIN drawn :
            drawn[k].g.row =
                lastop.pos.visual_line + drawn[k].virt_off + (drawn[k].g.line - 1)

\* C10 as claimed: a decoration whose rows would exceed the viewport
\* (pos.visual_line + virt_off + rows > viewport.height) is not invoked.
C10_NotInvokedWhenRowsExceed ==
    Rendered =>
        \A k \in DOMAIN hooks : RowLimit(k) <= renderer.viewport.height

\* C10 as amended: the decorations invoked are a prefix of the registry, in
\* order; each was reached with pos.visual_line + virt_off < viewport.height;
\* if one was skipped, the first skipped one was reached with
\* pos.visual_line + virt_off >= viewport.height, and it and all later
\* ones have no hook call and no draw.
C10_SkippedWhenViewportFull ==
    Rendered =>
        /\ Len(hooks) <= Len(decorations)
        /\ Len(offs) = Len(hooks) + 1
        /\ \A k \in DOMAIN hooks :
              /\ hooks[k].dec = k
              /\ lastop.pos.visual_line + offs[k] < renderer.viewport.height
        /\ Len(hooks) < Len(decorations) =>
              lastop.pos.visual_line + offs[Len(offs)] >= renderer.viewport.height
        /\ \A k \in DOMAIN drawn : drawn[k].dec <= Len(hooks)

\* C10 witness: a suggestion on its target row was skipped, with the one
\* after it, behind a decoration that was invoked
C10_Witness ==
    /\ Rendered
    /\ Len(hooks) = 1
    /\ Len(decorations) > 1
    /\ LET d == decorations[2].dec
       IN /\ d.kind = "Copilot"
          /\ d.row = lastop.pos.doc_line
          /\ Len(d.text) > 1

-----------------------------------------------------------------------------
(* Grapheme dispatch: C3, C4, C5, C6, C7 under Spec *)

Decs == 1..Len(decorations)
CursorIdxs == {i \in Decs : decorations[i].dec.kind = "Cursor"}

\* the loop iterations the running / last decorate_grapheme spent on
\* decoration i
TraceOf(i) == SelectSeq(trace, LAMBDA e : e.dec = i)

\* C3: the manager calls a decoration's decorate_grapheme hook only when the
\* stored anchor equals grapheme.char_idx; an anchor that is greater ends the
\* decoration's turn without any call.
C3_HookOnlyAtAnchor ==
    \A k \in DOMAIN trace :
        /\ trace[k].arg = grapheme.char_idx
        /\ trace[k].call = "decorate_grapheme" => trace[k].anchor = trace[k].arg
        /\ trace[k].anchor > trace[k].arg =>
              /\ trace[k].call = "break"
              /\ \A j \in DOMAIN trace : j > k => trace[j].dec > trace[k].dec

\* C3 witness: one dispatch in which a hook fired at its anchor and a
\* decoration whose anchor was ahead got no call
C3_Witness ==
    /\ pc = "idle"
    /\ \E k \in DOMAIN trace : trace[k].call = "decorate_grapheme"
    /\ \E i \in Decs : Len(TraceOf(i)) = 1 /\ TraceOf(i)[1].call = "break"

\* C4: within one decorate_grapheme call each decoration's hook fires at most
\* once, exactly once if its anchor is or becomes the grapheme's index; what
\* precedes the firing are skip_concealed_anchor calls, each made for an
\* anchor behind the index and returning an anchor not behind it.
C4_FiresOncePerAnchor ==
    \A i \in Decs :
        LET es == TraceOf(i)
            fired == {k \in DOMAIN es : es[k].call = "decorate_grapheme"}
        IN /\ Cardinality(fired) <= 1
           /\ \A k \in fired : \A j \in 1..(k - 1) :
                 /\ es[j].call = "skip_concealed_anchor"
                 /\ es[j].anchor < es[j].arg
                 /\ es[j].ret >= es[j].arg
           /\ (cur > i \/ pc = "idle") =>
                 ((\E k \in DOMAIN es : es[k].anchor = grapheme.char_idx)
                    => Cardinality(fired) = 1)

\* C4 witness: in a pass begun by prepare_for_rendering, a hook fired on the
\* grapheme at its anchor after an earlier grapheme had been dispatched
C4_Witness ==
    /\ pc = "idle"
    /\ pass.clean
    /\ Cardinality(pass.seen) > 1
    /\ \E k \in DOMAIN trace : trace[k].call = "decorate_grapheme"

\* C5: a pass prepare_for_rendering(C) followed by graphemes in increasing
\* order, in a manager whose Cursor decorations have primary_cursor = T. If
\* the grapheme at T was dispatched and its column is in bounds, the cache
\* holds (its row, its column - col_offset); if no grapheme at T was
\* dispatched, the cache is as it was at the reset.
C5_CursorCachedAtTarget ==
    (pc = "idle" /\ pass.clean) =>
        \A i \in CursorIdxs :
            LET T == decorations[i].dec.primary_cursor
                g == DocGrapheme(T)
            IN (\A j \in CursorIdxs : decorations[j].dec.primary_cursor = T) =>
                  /\ (T \in pass.seen /\ column_in_bounds(renderer, g.visual_pos.col))
                        => cache = Some([row |-> g.visual_pos.row,
                                         col |-> g.visual_pos.col - renderer.col_offset])
                  /\ T \notin pass.seen => cache = pass.cache0

\* C5 witness: the cursor's grapheme was dispatched after an earlier one, in
\* a viewport scrolled by one column, and the cache holds its position
C5_Witness ==
    /\ pc = "idle"
    /\ pass.clean
    /\ renderer.col_offset = 1
    /\ \E i \in CursorIdxs :
          /\ decorations[i].dec.primary_cursor \in pass.seen
          /\ Cardinality(pass.seen) > 1
          /\ cache = Some([row |-> 0, col |-> 0])
          /\ writes[i] = 1

\* C6: since the last prepare_for_rendering a Cursor's hook has fired at most
\* once and has written the cache at most once; once it has fired, the
\* Cursor's anchor is usize::MAX.
C6_CursorFiresOnce ==
    \A i \in CursorIdxs :
        /\ fires[i] <= 1
        /\ writes[i] <= 1
        /\ writes[i] <= fires[i]
        /\ fires[i] = 1 => decorations[i].pos = UsizeMax

\* C6 witness: a Cursor fired without writing (column out of bounds) and a
\* later grapheme of the pass found it inactive
C6_Witness ==
    /\ pc = "idle"
    /\ lastop.op = "decorate_grapheme"
    /\ \E i \in CursorIdxs :
          /\ fires[i] = 1
          /\ writes[i] = 0
          /\ Len(TraceOf(i)) = 1
          /\ TraceOf(i)[1].call = "break"

\* C7: right after prepare_for_rendering(C) a Cursor's anchor is
\* primary_cursor if C <= primary_cursor and usize::MAX otherwise, every other
\* decoration's anchor is usize::MAX, and no anchor is below C.
C7_AnchorsAfterPrepare ==
    lastop.op = "prepare_for_rendering" =>
        \A i \in Decs :
            LET d == decorations[i].dec
                C == lastop.first_visible_char
            IN /\ decorations[i].pos >= C
               /\ decorations[i].pos =
                     IF d.kind = "Cursor"
                     THEN (IF C <= d.primary_cursor THEN d.primary_cursor ELSE UsizeMax)
                     ELSE UsizeMax

\* C7 witness: a reset at C > 0 left a Cursor at its target, a Cursor behind
\* C inactive and a decoration without reset_pos inactive
C7_Witness ==
    /\ lastop.op = "prepare_for_rendering"
    /\ lastop.first_visible_char > 0
    /\ \E i \in CursorIdxs : decorations[i].pos = decorations[i].dec.primary_cursor
    /\ \E i \in Decs : decorations[i].dec.kind # "Cursor" /\ decorations[i].pos = UsizeMax

-----------------------------------------------------------------------------
(* The suggestion's virtual lines: C9 under SpecCopilot *)

CountNewlines(text) == Cardinality({k \in DOMAIN text : text[k] = NL})

\* the characters drawn for suggestion line n by decoration i, in order
DrawnLine(i, n) ==
    SelectSeq(drawn, LAMBDA e : e.dec = i /\ e.g.line = n)

\* C9: CopilotDecoration::render_virt_lines returns 0 and draws nothing off
\* its target row; on it, it returns the number of newlines of the text and
\* draws exactly the lines 1 .. that number (every non-empty one of them).
\* For "foo(\n  bar,\n)" at width 80 it draws "  bar," in row visual_line + 1
\* and ")" in row visual_line + 2 and returns 2.
C9_ReturnsExtraLines ==
    Rendered =>
        \A k \in DOMAIN hooks :
            LET i == hooks[k].dec
                d == decorations[i].dec
                vl == lastop.pos.visual_line
                mine == SelectSeq(drawn, LAMBDA e : e.dec = i)
            IN d.kind = "Copilot" =>
                IF lastop.pos.doc_line # d.row
                THEN hooks[k].ret = 0 /\ mine = <<>>
                ELSE /\ hooks[k].ret = CountNewlines(d.text)
                     /\ \A j \in DOMAIN mine : mine[j].g.line \in 1..hooks[k].ret
                     /\ \A n \in 1..hooks[k].ret :
                           Len(DrawnLine(i, n)) = Len(Split(d.text)[n + 1])
                     /\ (d.text = ExampleText /\ d.view_width = 80) =>
                           /\ hooks[k].ret = 2
                           /\ [j \in 1..6 |-> DrawnLine(i, 1)[j].g.raw]
                                 = <<" ", " ", "b", "a", "r", ",">>
                           /\ \A j \in 1..6 : DrawnLine(i, 1)[j].g.row = vl + 1
                           /\ [j \in 1..1 |-> DrawnLine(i, 2)[j].g.raw] = <<")">>
                           /\ DrawnLine(i, 2)[1].g.row = vl + 2

\* C9 witness: the hook ran on the target row of "foo(\n  bar,\n)" at width
\* 80, drew seven characters and returned 2
C9_Witness ==
    /\ Rendered
    /\ Len(hooks) = 1
    /\ decorations[1].dec.text = ExampleText
    /\ decorations[1].dec.view_width = 80
    /\ decorations[1].dec.row = lastop.pos.doc_line
    /\ hooks[1].ret = 2
    /\ Len(drawn) = 7

-----------------------------------------------------------------------------
(* The area a hook may draw in: C11 under SpecVirt *)

\* the row count hook i of the last render_virtual_lines call returned
ReturnedBy(i) == hooks[CHOOSE k \in DOMAIN hooks : hooks[k].dec = i].ret

\* C11: a render_virt_lines hook that is given virt_off and returns X draws
\* only in the rows pos.visual_line + virt_off .. pos.visual_line + virt_off + X
\* (end excluded).
C11_DrawsInsideOwnRows ==
    Rendered =>
        \A k \in DOMAIN drawn :
            LET start == lastop.pos.visual_line + drawn[k].virt_off
            IN /\ start <= drawn[k].g.row
               /\ drawn[k].g.row < start + ReturnedBy(drawn[k].dec)

-----------------------------------------------------------------------------
(* The line hook: C12 under Spec *)

LineDecorated == lastop.op = "decorate_line" /\ pc = "idle"

\* C12: a decorate_line call invokes the line hook of every registered
\* decoration exactly once, in registration order, whatever the anchors are;
\* a closure is run by that hook and by no other call of the manager.
C12_LineHookOfEveryDecoration ==
    /\ LineDecorated =>
          /\ Len(hooks) = Len(decorations)
          /\ \A i \in Decs :
                /\ hooks[i].dec = i
                /\ hooks[i].hook = "decorate_line"
                /\ hooks[i].closure = (decorations[i].dec.kind = "Closure")
    /\ \A k \in DOMAIN hooks : hooks[k].closure => hooks[k].hook = "decorate_line"
    /\ \A k \in DOMAIN trace : ~trace[k].closure

\* a line is decorated while a closure and a cursor are registered, one with
\* an inactive anchor and one with a live one
C12_Witness ==
    /\ LineDecorated
    /\ Len(hooks) = 2
    /\ \E i, j \in Decs :
          /\ decorations[i].dec.kind = "Closure"
          /\ decorations[i].pos = UsizeMax
          /\ decorations[j].dec.kind = "Cursor"
          /\ decorations[j].pos < UsizeMax

-----------------------------------------------------------------------------
(* The suggestion's first line: C13 under SpecCopilot *)

\* the length of the text before its first newline
FirstLineLen(text) ==
    LET nls == {k \in DOMAIN text : text[k] = NL}
    IN IF nls = {} THEN Len(text)
       ELSE (CHOOSE k \in nls : \A j \in nls : k <= j) - 1

\* the visual row, within the first line re-flowed at d.view_width, of the
\* grapheme at offset n
FlowedRow(d, n) == IF soft_wrap THEN n \div d.view_width ELSE 0

\* the graphemes of the first line of d.text from the target column on, each
\* with the row RowAt gives its offset
FirstLineFrom(d, RowAt(_)) ==
    LET n == FirstLineLen(d.text)
        m == IF n > d.col THEN n - d.col ELSE 0
    IN [j \in 1..m |->
          [raw |-> d.text[d.col + j], char_idx |-> d.col + j - 1,
           row |-> RowAt(d.col + j - 1)]]

\* what the line hook drew: grapheme, offset in the line, row
LineDrawn ==
    [k \in DOMAIN drawn |->
        [raw |-> drawn[k].g.raw, char_idx |-> drawn[k].g.char_idx,
         row |-> drawn[k].g.row]]

\* C13 as stated: CopilotDecoration::decorate_line draws nothing on a document
\* line other than its target row; on the target row it draws, from the text
\* up to the first newline only, exactly the graphemes whose offset in that
\* line is at least the target column, each at row pos.visual_line.
C13_FirstLineAtVisualLine ==
    LineDecorated =>
        LET d == decorations[1].dec
        IN LineDrawn = IF lastop.pos.doc_line # d.row
                       THEN <<>>
                       ELSE FirstLineFrom(d, LAMBDA n : lastop.pos.visual_line)

\* C13 amended: the same graphemes, each at row pos.visual_line plus its
\* visual row in the first line as re-flowed at view_width, which is
\* pos.visual_line itself only where the line is not wrapped.
C13_FirstLineAtFlowedRow ==
    LineDecorated =>
        LET d == decorations[1].dec
        IN LineDrawn = IF lastop.pos.doc_line # d.row
                       THEN <<>>
                       ELSE FirstLineFrom(d, LAMBDA n :
                                lastop.pos.visual_line + FlowedRow(d, n))

\* the example suggestion is drawn from column 1 on, wrapped at width 2:
\* "o" of "foo(" on the visual line, "o(" on the row below, and nothing of
\* the lines after it
C13_Witness ==
    /\ LineDecorated
    /\ soft_wrap
    /\ decorations[1].dec.text = ExampleText
    /\ decorations[1].dec.col = 1
    /\ decorations[1].dec.view_width = 2
    /\ Len(drawn) = 3
    /\ drawn[1].g.row = lastop.pos.visual_line
    /\ drawn[3].g.row = lastop.pos.visual_line + 1

-----------------------------------------------------------------------------
(* Anchors within a pass: C14 under Spec *)

\* C14: within a pass, that is from one prepare_for_rendering to the next, no
\* step lowers a stored anchor: each skip_concealed_anchor and
\* decorate_grapheme result the manager stores is at least the anchor it
\* replaces, for the default hooks, closures, Cursor and CopilotDecoration.
C14_AnchorsNeverDecrease ==
    [][lastop'.op # "prepare_for_rendering" =>
          \A i \in Decs : decorations'[i].pos >= decorations[i].pos]_vars

\* in a pass over increasing graphemes, begun by a reset, a Cursor's anchor
\* went from its target to inactive and a concealed one was skipped forward
C14_Witness ==
    /\ pc = "idle"
    /\ pass.clean
    /\ Cardinality(pass.seen) > 1
    /\ \E k \in DOMAIN trace :
          /\ trace[k].call # "break"
          /\ decorations[trace[k].dec].dec.kind = "Cursor"
          /\ trace[k].anchor > 0
          /\ trace[k].ret > trace[k].anchor

-----------------------------------------------------------------------------
(* Termination of the dispatch: C15 under SpecSentinel *)

Dispatched == lastop.op = "decorate_grapheme"

\* every skip_concealed_anchor and decorate_grapheme call of the dispatch
\* stored an anchor above the one it replaced
EveryCallAdvances ==
    \A k \in DOMAIN trace :
        trace[k].call # "break" => trace[k].ret > trace[k].anchor

\* the inner loop spends at most a skip, a hook call and the break on a
\* decoration, and is never cut short by MaxTrace
LoopBounded ==
    /\ \A i \in Decs : Len(TraceOf(i)) <= 3
    /\ (pc = "grapheme" /\ cur <= Len(decorations)) => Len(trace) < MaxTrace

\* C15 as stated: decorate_grapheme terminates for every grapheme.char_idx,
\* usize::MAX included, from any reachable anchors: every call in the inner
\* loop strictly advances the anchor and the loop ends after boundedly many
\* iterations.
C15_TerminatesForEveryIndex ==
    Dispatched => (EveryCallAdvances /\ LoopBounded)

\* C15 amended: the same for every grapheme.char_idx below usize::MAX.
C15_TerminatesBelowSentinel ==
    (Dispatched /\ grapheme.char_idx < UsizeMax) => (EveryCallAdvances /\ LoopBounded)

\* a dispatch made before any reset returned after taking a Cursor from the
\* initial anchor 0 through a skip, its hook and the break
C15_Witness ==
    /\ Dispatched
    /\ pc = "idle"
    /\ grapheme.char_idx < UsizeMax
    /\ \E i \in CursorIdxs :
          /\ Len(TraceOf(i)) = 3
          /\ TraceOf(i)[1].anchor = 0
          /\ TraceOf(i)[1].call = "skip_concealed_anchor"
          /\ TraceOf(i)[2].call = "decorate_grapheme"

-----------------------------------------------------------------------------
(* Concealed anchors: C16 under Spec *)

\* reset_pos as the claim has it for decoration d
ExpectedReset(d, c) ==
    IF d.kind = "Cursor"
    THEN (IF c <= d.primary_cursor THEN d.primary_cursor ELSE UsizeMax)
    ELSE UsizeMax

\* C16: when a decoration's stored anchor is below grapheme.char_idx, the
\* manager calls skip_concealed_anchor with exactly grapheme.char_idx and
\* stores the result before any decorate_grapheme call to that decoration for
\* this grapheme; as no decoration overrides skip_concealed_anchor, the result
\* is reset_pos(grapheme.char_idx).
C16_SkipBeforeHook ==
    Dispatched =>
        \A i \in Decs :
            LET es == TraceOf(i)
            IN \A k \in DOMAIN es :
                  /\ (es[k].call = "skip_concealed_anchor") = (es[k].anchor < grapheme.char_idx)
                  /\ es[k].call = "skip_concealed_anchor" =>
                        /\ es[k].arg = grapheme.char_idx
                        /\ es[k].ret = ExpectedReset(decorations[i].dec, grapheme.char_idx)
                        /\ \A j \in 1..(k - 1) : es[j].call # "decorate_grapheme"
                        /\ IF k < Len(es)
                           THEN es[k + 1].anchor = es[k].ret
                           ELSE decorations[i].pos = es[k].ret

\* one Cursor was skipped past its target, which no grapheme carried, and
\* another was skipped up to its target and then fired
C16_Witness ==
    /\ Dispatched
    /\ pc = "idle"
    /\ \E i \in CursorIdxs :
          LET es == TraceOf(i)
          IN /\ Len(es) = 2
             /\ es[1].call = "skip_concealed_anchor"
             /\ es[1].anchor = decorations[i].dec.primary_cursor
             /\ es[1].ret = UsizeMax
    /\ \E i \in Decs :
          LET es == TraceOf(i)
          IN /\ Len(es) = 3
             /\ es[1].call = "skip_concealed_anchor"
             /\ es[2].call = "decorate_grapheme"

-----------------------------------------------------------------------------
(* Anchors when the dispatch returns: C17 under Spec *)

DispatchReturned == Dispatched /\ pc = "idle"

\* C17: whenever DecorationManager::decorate_grapheme(g) returns, every
\* stored anchor is strictly greater than g.char_idx; so a grapheme dispatched
\* right after one with the same char_idx triggers no skip and no hook.
C17_AnchorsPastGrapheme ==
    /\ DispatchReturned =>
          \A i \in Decs : decorations[i].pos > grapheme.char_idx
    /\ (Dispatched /\ lastop.repeat) =>
          \A k \in DOMAIN trace : trace[k].call = "break"

\* a second grapheme with the index of the one before it, at which a Cursor
\* had fired, went through a registry of two
C17_Witness ==
    /\ DispatchReturned
    /\ lastop.repeat
    /\ Len(trace) = 2
    /\ \E i \in CursorIdxs :
          /\ fires[i] = 1
          /\ decorations[i].dec.primary_cursor = grapheme.char_idx

-----------------------------------------------------------------------------
(* Where the Cursor writes: C18 under Spec *)

\* C18: in every sequence of manager operations, those that dispatch
\* graphemes after add_decoration and before any prepare_for_rendering
\* included, a Cursor writes the cache only while handling a grapheme whose
\* char_idx equals its primary_cursor.
C18_CursorWritesOnlyAtTarget ==
    \A k \in DOMAIN trace :
        trace[k].write.some =>
            /\ decorations[trace[k].dec].dec.kind = "Cursor"
            /\ trace[k].arg = decorations[trace[k].dec].dec.primary_cursor

-----------------------------------------------------------------------------
(* What each operation may change: C19 under Spec *)

\* the calls of a dispatch are made decoration by decoration
TraceInRegistrationOrder ==
    \A j, k \in DOMAIN trace : j < k => trace[j].dec <= trace[k].dec

\* C19: decorate_line and render_virtual_lines leave every anchor and the
\* registry order as they are; add_decoration appends one entry with anchor 0
\* and leaves the others as they are; a step of decorate_grapheme changes at
\* most the anchor of the decoration whose turn it is, and all calls to a
\* decoration are made before any call to a later one; so anchors change
\* through prepare_for_rendering and decorate_grapheme only, and no operation
\* reorders or removes an entry.
C19_Frame ==
    /\ [][/\ lastop'.op \in {"decorate_line", "render_virtual_lines"} =>
                decorations' = decorations
          /\ lastop'.op = "add_decoration" =>
                /\ Len(decorations') = Len(decorations) + 1
                /\ SubSeq(decorations', 1, Len(decorations)) = decorations
                /\ decorations'[Len(decorations')].pos = 0
          /\ lastop'.op = "prepare_for_rendering" =>
                Len(decorations') = Len(decorations)
          /\ lastop'.op = "decorate_grapheme" =>
                /\ Len(decorations') = Len(decorations)
                /\ \A i \in Decs : (pc # "grapheme" \/ i # cur) =>
                      decorations'[i] = decorations[i]
          /\ \A i \in Decs : decorations'[i].dec = decorations[i].dec]_vars
    /\ []TraceInRegistrationOrder

\* a line was decorated, or virtual lines rendered, in a registry of two
\* whose anchors a reset had set to a live index and to inactive
C19_Witness ==
    /\ lastop.op \in {"decorate_line", "render_virtual_lines"}
    /\ Len(decorations) = 2
    /\ \E i, j \in Decs :
          /\ decorations[i].pos = UsizeMax
          /\ decorations[j].pos > 0
          /\ decorations[j].pos < UsizeMax

====
